---- MODULE Spec2Model ----
(***************************************************************************)
(* Ingestion pipeline of learning-mcp: the durable job table (jobs_db.py), *)
(* the two job orchestrators (routes/ingest.py and job_server.py), the     *)
(* in-memory task registry, cancel_all, the vector collection (vdb.py)     *)
(* and the embedding orchestrator (embeddings.py).                         *)
(*                                                                         *)
(* One action is one run of a coroutine between two suspension points of   *)
(* the asyncio event loop: handlers and workers run atomically from one    *)
(* await that really suspends to the next.                                 *)
(***************************************************************************)
EXTENDS Integers, Sequences, FiniteSets, TLC

\* ---------------------------------------------------- bounds and constants
MaxJobs == 2

\* how many times cancel_all is called
MaxCancelAll == 1

\* how many texts one embed() call is given at most
MaxTexts == 2

\* EmbeddingConfig.max_retries, the default of EMBED_MAX_RETRIES
max_retries == 2

JobIds == 1..MaxJobs

\* ------------------------------------------------- statuses and phases
QUEUED == "queued"
RUNNING == "running"
COMPLETED == "completed"
FAILED == "failed"
CANCELED == "canceled"

PREFLIGHT == "preflight"
EXTRACT == "extract"
EMBED == "embed"
UPSERT == "upsert"
FINISHED == "finished"

ActiveStatuses == {QUEUED, RUNNING}
TerminalStatuses == {COMPLETED, FAILED, CANCELED}

\* ------------------------------------------------------------ profiles
\* A document spec with what the file system holds for it: state is
\* "ok", "missing" (os.path.exists is false) or "badpage" (PdfReader opens
\* the file, page.extract_text raises); chunks is the number of chunks
\* the loader returns for it.
Doc(type, path, state, chunks) ==
    [type |-> type, path |-> path, state |-> state, chunks |-> chunks]

Profiles == {"p1", "p2", "p3", "p4"}

\* the profile names a request can carry: the configured ones and one more
RequestNames == Profiles \cup {"nope"}

Documents(p) ==
    CASE p = "p1" -> << Doc("pdf", "a.pdf", "ok", 1),
                        Doc("pdf", "b.pdf", "ok", 1),
                        Doc("json", "c.json", "ok", 1) >>
      [] p = "p2" -> << Doc("pdf", "m.pdf", "missing", 0),
                        Doc("pdf", "e.pdf", "ok", 0),
                        Doc("docx", "u.docx", "ok", 1) >>
      [] p = "p3" -> << Doc("pdf", "x.pdf", "ok", 1),
                        Doc("pdf", "y.pdf", "badpage", 0) >>
      [] p = "p4" -> << Doc("docx", "v.docx", "ok", 1) >>
      [] OTHER    -> << >>

RECURSIVE SelectSeq2(_, _)
\* [d for d in docs if test]: the documents whose type is in types, in order
SelectSeq2(docs, types) ==
    IF docs = << >> THEN << >>
    ELSE IF Head(docs).type \in types
         THEN << Head(docs) >> \o SelectSeq2(Tail(docs), types)
         ELSE SelectSeq2(Tail(docs), types)

\* routes/ingest.py: only the PDF documents of a profile
ProfileDocs(p) == SelectSeq2(Documents(p), {"pdf"})

\* document_loaders.py: the types with a registered loader
LoaderTypes == {"pdf", "json"}

KnownDocs(p) == SelectSeq2(Documents(p), LoaderTypes)

KnownDocumentCount(p) == Len(KnownDocs(p))

\* collect_chunks raises when a loader raises: nothing catches it there
CollectRaises(p) == \E i \in 1..Len(KnownDocs(p)) : KnownDocs(p)[i].state = "badpage"

RECURSIVE ChunkList(_)
\* collect_chunks: the chunks of all known documents, in document order,
\* each chunk standing for its metadata (doc_id is the profile, doc_path)
ChunkList(docs) ==
    IF docs = << >> THEN << >>
    ELSE LET d == Head(docs)
             own == IF d.state = "ok"
                    THEN [k \in 1..d.chunks |-> d.path]
                    ELSE << >>
         IN  own \o ChunkList(Tail(docs))

CollectChunks(p) == ChunkList(KnownDocs(p))

\* ----------------------------------------------------------- point ids
\* uuid5(NAMESPACE_DNS, "doc_id|doc_path|i"): a function of its name alone
Uuid5(doc_id, doc_path, i) == << "uuid5", doc_id, doc_path, i >>

\* uuid4(): a fresh id at every call; the call is identified by the job,
\* the document and the chunk it is made for
Uuid4(j, doc_path, i) == << "uuid4", j, doc_path, i >>

\* job_server.py: one id per chunk, from the chunk's metadata and its index
ServerPointIds(p) ==
    LET cs == CollectChunks(p)
    IN  { Uuid5(p, cs[i], i - 1) : i \in 1..Len(cs) }

\* routes/ingest.py: one random id per chunk of the document
RoutesPointIds(j, d) == { Uuid4(j, d.path, i - 1) : i \in 1..d.chunks }


\* ------------------------------------------------------------------ state
VARIABLES
    impl,        \* which orchestrator serves the process: "routes" or "server"
    db,          \* the jobs table: job id -> row
    nextId,      \* the next job id start_job hands out
    tasks,       \* _RUNNING_TASKS: the job ids that have a task registered
    pc,          \* where each worker task is suspended
    doc,         \* routes worker: index of the document of the current loop turn
    after,       \* what a worker suspended in close() does when close() returns
    client,      \* Embedder._client is not None
    cancelReq,   \* task.cancel() was called and CancelledError is not yet thrown in
    outcome,     \* how the task ended: "returned", "cancelled", "exception"
    loc,         \* routes worker locals files_done, chunks_done
    coll,        \* the vector collection of each profile
    ca,          \* the cancel_all handler: its position and locals
    caCalls,     \* how many times cancel_all was called
    ret,         \* the last response returned by a handler
    superseded,  \* history: jobs an enqueue marked CANCELED
    raised,      \* history: jobs in whose worker an exception other than cancellation was raised
    upserted,    \* history: the point ids each job wrote
    firstRun,    \* history: per profile, the collection's ids when a job of it first COMPLETED
    rerun,       \* history: jobs without truncate enqueued after their profile's first completed run
    lastRerun,   \* history: per profile, the collection's ids when a rerun job COMPLETED
    caSnap       \* history: the tracked, not done jobs at the last cancel_all call

jobVars == << impl, db, nextId, tasks, pc, doc, after, client, cancelReq,
              outcome, loc, coll, ca, caCalls, ret >>
histVars == << superseded, raised, upserted, firstRun, rerun, lastRerun, caSnap >>

NotRun == [done |-> FALSE, ids |-> {}]

\* one embed() call of embeddings.py
VARIABLES
    eCfg,        \* the call: number of texts, of ids, primary, fallback, concurrency,
                 \* cache use
    eCache,      \* the caller's cache: text id -> vector
    ePc,         \* where embed() is: "idle", "gather", "returned", "raised", "cancelled"
    eRound,      \* index, in the backend order, of the backend being tried
    ePending,    \* pending_indices, in increasing order
    eResults,    \* results: text index -> vector
    eTask,       \* the run_one tasks: round -> index in pending_texts -> position, attempt, vector
    eCalls       \* history: round -> index in pending_texts -> requests posted

embedVars == << eCfg, eCache, ePc, eRound, ePending, eResults, eTask, eCalls >>

TextIds == 1..MaxTexts

Rounds == 1..2

Backends == {"ollama", "cloudflare"}

\* the values of EMBED_CONCURRENCY considered
Concurrencies == {1, 2}

NoVec == [src |-> "none", i |-> 0, dimOk |-> FALSE]

\* what an attempt of a per-text call can fail with: a timeout, an HTTP
\* status raised by raise_for_status, or a body without a vector
ErrorKinds == {"timeout", "http_429", "http_5xx", "http_4xx", "malformed"}

\* err is the exception _retry is sleeping on, "none" otherwise
NoTask == [pc |-> "none", attempt |-> 0, vec |-> NoVec, err |-> "none"]

\* no embed() call is modelled: the state of the embed variables
EmbedIdle ==
    /\ eCfg = [n |-> 0, nIds |-> 0, primary |-> "ollama", fallback |-> "none",
               conc |-> 1, useCache |-> FALSE]
    /\ eCache = [i \in TextIds |-> NoVec]
    /\ ePc = "off"
    /\ eRound = 0
    /\ ePending = << >>
    /\ eResults = [i \in TextIds |-> NoVec]
    /\ eTask = [r \in Rounds |-> [i \in TextIds |-> NoTask]]
    /\ eCalls = [r \in Rounds |-> [i \in TextIds |-> 0]]

\* one upsert() or search() call of vdb.py
VARIABLES
    vIn,         \* the call: operation, arguments, the collection before it
    vPc,         \* where the call is: "idle", "ensure", "batches", "query",
                 \* "returned", "raised"
    vIds,        \* upsert: the local `ids` after "Prepare IDs"
    vStart,      \* upsert: the loop variable `start`
    vWritten,    \* upsert: the local `written`
    vStore,      \* the collection in the store
    vLog         \* history: the requests sent to the store, in order

vdbVars == << vIn, vPc, vIds, vStart, vWritten, vStore, vLog >>

UPSERT_BATCH == 256

MaxBatches == 2

MaxTokens == 6

MaxSize == 3

MaxPage == 3

MaxParts == 2

NoVdbCall ==
    [op |-> "none", n |-> 0, badAt |-> 0, lens |-> "ok", ids |-> "none",
     qOk |-> TRUE, before |-> [exists |-> FALSE, points |-> {}]]

\* no vdb call is modelled: the state of the vdb variables
VdbIdle ==
    /\ vIn = NoVdbCall
    /\ vPc = "off"
    /\ vIds = << >>
    /\ vStart = 0
    /\ vWritten = << >>
    /\ vStore = [exists |-> FALSE, points |-> {}]
    /\ vLog = << >>

\* one chunk_text() call of chunker.py
VARIABLES
    cIn,         \* the call: the text, size, overlap
    cPc,         \* "idle" before the call, "returned" after it
    cChunks      \* the list returned

chunkVars == << cIn, cPc, cChunks >>

\* no chunk_text call is modelled: the state of the chunker variables
ChunkIdle ==
    /\ cIn = [n |-> 0, raw |-> "empty", size |-> 1, overlap |-> 0]
    /\ cPc = "off"
    /\ cChunks = << >>

\* one request to the search route of routes/search.py
VARIABLES
    sIn,         \* what the request meets: the collection, the store, the backends
    sPc,         \* "idle", "embed" (awaiting emb.embed), "returned", "raised"
    sRet         \* the SearchResponse returned, or the exception raised

searchVars == << sIn, sPc, sRet >>

NoSearchResponse == [status |-> "none", results |-> 0]

\* no search request is modelled: the state of the search variables
SearchIdle ==
    /\ sIn = [exists |-> FALSE, count |-> 0, top_k |-> 1, probe |-> "ok",
              embed |-> "ok", query |-> "ok"]
    /\ sPc = "off"
    /\ sRet = NoSearchResponse

\* one compute_pages() call of page_ranges.py
VARIABLES
    pIn,         \* the call: include_spec, exclude_spec, total_pages
    pPc,         \* "idle" before the call, "returned" or "raised" after it
    pOut         \* the list of pages returned

pageVars == << pIn, pPc, pOut >>

\* no compute_pages call is modelled: the state of the page variables
PagesIdle ==
    /\ pIn = [include |-> << >>, exclude |-> << >>, total |-> 0]
    /\ pPc = "off"
    /\ pOut = << >>

\* the variables of the library calls modelled apart from the jobs
libVars == << vdbVars, chunkVars, searchVars, pageVars >>

\* ------------------------------------------------------------- jobs_db.py
NoJob ==
    [profile |-> "", truncate |-> FALSE, status |-> "none", phase |-> "none",
     error |-> "", files_total |-> 0, files_done |-> 0, chunks_done |-> 0]

StartJob(d, j, p, t, files_total) ==
    [d EXCEPT ![j] = [profile |-> p, truncate |-> t, status |-> QUEUED,
                      phase |-> PREFLIGHT, error |-> "",
                      files_total |-> files_total, files_done |-> 0,
                      chunks_done |-> 0]]

MarkRunning(d, j) == [d EXCEPT ![j].status = RUNNING]

SetPhase(d, j, phase) == [d EXCEPT ![j].phase = phase]

UpdateFilesDone(d, j, n) == [d EXCEPT ![j].files_done = n]

UpdateChunksDone(d, j, n) == [d EXCEPT ![j].chunks_done = n]

FinishJob(d, j, status, error) ==
    [d EXCEPT ![j].status = status, ![j].phase = FINISHED, ![j].error = error]

\* the rows the UPDATE of cancel_queued_or_running_for_profile matches
RowsQueuedOrRunning(d, p) ==
    { j \in JobIds : d[j].profile = p /\ d[j].status \in ActiveStatuses }

\* the UPDATE with `status = 'running'` as its only status condition
CancelRunningForProfile(d, p) ==
    [j \in JobIds |->
        IF d[j].profile = p /\ d[j].status = RUNNING
        THEN [d[j] EXCEPT !.status = CANCELED]
        ELSE d[j]]

CancelQueuedOrRunningForProfile(d, p) ==
    [j \in JobIds |->
        IF j \in RowsQueuedOrRunning(d, p)
        THEN [d[j] EXCEPT !.status = CANCELED]
        ELSE d[j]]

\* ----------------------------------------------------------------- vdb.py
NoCollection == [exists |-> FALSE, points |-> {}]

\* recreate_collection: an empty collection, whatever was there
Recreate == [exists |-> TRUE, points |-> {}]

\* get_collection raises when the collection is absent, and may raise for
\* another reason (probeOk false); every exception leads to recreate
EnsureCollection(c, probeOk) == IF c.exists /\ probeOk THEN c ELSE Recreate

Truncate(c) == Recreate

VdbUpsert(c, ids, probeOk) ==
    [EnsureCollection(c, probeOk) EXCEPT !.points = @ \cup ids]

\* the worker's first store call: truncate() or ensure_collection()
PrepareCollection(c, truncate, probeOk) ==
    IF truncate THEN Truncate(c) ELSE EnsureCollection(c, probeOk)

\* ------------------------------------------------------------------- Init
\* no job, no task, empty collections
JobsInit ==
    /\ db = [j \in JobIds |-> NoJob]
    /\ nextId = 1
    /\ tasks = {}
    /\ pc = [j \in JobIds |-> "none"]
    /\ doc = [j \in JobIds |-> 0]
    /\ after = [j \in JobIds |-> "none"]
    /\ client = [j \in JobIds |-> FALSE]
    /\ cancelReq = [j \in JobIds |-> FALSE]
    /\ outcome = [j \in JobIds |-> "none"]
    /\ loc = [j \in JobIds |-> [files_done |-> 0, chunks_done |-> 0]]
    /\ coll = [p \in Profiles |-> NoCollection]
    /\ ca = [pc |-> "idle", rest |-> << >>, wait |-> 0, ids |-> << >>,
             timedOut |-> FALSE]
    /\ caCalls = 0
    /\ ret = [op |-> "none"]
    /\ superseded = {}
    /\ raised = {}
    /\ upserted = [j \in JobIds |-> {}]
    /\ firstRun = [p \in Profiles |-> NotRun]
    /\ rerun = {}
    /\ lastRerun = [p \in Profiles |-> NotRun]
    /\ caSnap = {}

Init ==
    /\ impl \in {"routes", "server"}
    /\ JobsInit
    /\ EmbedIdle
    /\ VdbIdle
    /\ ChunkIdle
    /\ SearchIdle
    /\ PagesIdle

\* ---------------------------------------------------------------- enqueue
\* start_ingest_job (job_server.py) and enqueue_ingest (routes/ingest.py):
\* the same steps, with their own preflight count
\* a preflight count that takes every entry of `documents`, whatever its type
FilesTotalAllDocs(p) == Len(Documents(p))

FilesTotal(p) == IF impl = "routes" THEN Len(ProfileDocs(p)) ELSE KnownDocumentCount(p)

\* the two HTTPExceptions raised before the jobs table is touched: 404 for a
\* name that is no profile, 400 for a profile whose preflight count is zero
EnqueueRejected(p) ==
    /\ p \notin Profiles \/ FilesTotal(p) = 0
    /\ ret' = [op |-> "rejected", profile |-> p,
               code |-> IF p \notin Profiles THEN 404 ELSE 400]
    /\ UNCHANGED << embedVars, libVars, caCalls, impl, db, nextId, tasks, pc, doc, after,
                    client, cancelReq, outcome, loc, coll, ca >>
    /\ UNCHANGED histVars

Enqueue(p, t) ==
    /\ nextId <= MaxJobs
    /\ p \in Profiles
    /\ FilesTotal(p) > 0
    /\ LET j == nextId
           canceled_prev == Cardinality(RowsQueuedOrRunning(db, p))
       IN  /\ db' = StartJob(CancelQueuedOrRunningForProfile(db, p), j, p, t,
                             FilesTotal(p))
           /\ nextId' = nextId + 1
           /\ pc' = [pc EXCEPT ![j] = "not_started"]
           /\ tasks' = tasks \cup {j}
           /\ ret' = [op |-> "enqueue", job_id |-> j, profile |-> p,
                      canceled_previous |-> canceled_prev]
           /\ superseded' = superseded \cup RowsQueuedOrRunning(db, p)
           /\ rerun' = IF firstRun[p].done /\ ~t THEN rerun \cup {j} ELSE rerun
    /\ UNCHANGED << embedVars, libVars, caCalls, impl, doc, after, client, cancelReq, outcome, loc, coll, ca >>
    /\ UNCHANGED << raised, upserted, firstRun, lastRerun, caSnap >>


\* ------------------------------------------------------ worker: common
ProfileOf(j) == db[j].profile

\* the task ends: done, with its outcome; popped says whether _pop_task ran
WorkerEnds(j, kind, popped) ==
    /\ pc' = [pc EXCEPT ![j] = "done"]
    /\ outcome' = [outcome EXCEPT ![j] = kind]
    /\ tasks' = IF popped THEN tasks \ {j} ELSE tasks
    /\ cancelReq' = [cancelReq EXCEPT ![j] = FALSE]

\* the worker suspends in `await emb.close()`, to go on with `next`
WorkerSuspendsInClose(j, next) ==
    /\ pc' = [pc EXCEPT ![j] = "close"]
    /\ after' = [after EXCEPT ![j] = next]
    /\ cancelReq' = [cancelReq EXCEPT ![j] = FALSE]
    /\ UNCHANGED << outcome, tasks >>

\* close() awaits client.aclose() only when a client was created, and that
\* await may or may not suspend the task
CloseMaySuspend(j) == IF client[j] THEN BOOLEAN ELSE {FALSE}

\* history: job j of profile p finished COMPLETED with collection c
RecordCompleted(j, p, c) ==
    /\ firstRun' = IF ~firstRun[p].done
                   THEN [firstRun EXCEPT ![p] = [done |-> TRUE, ids |-> c.points]]
                   ELSE firstRun
    /\ lastRerun' = IF j \in rerun
                    THEN [lastRerun EXCEPT ![p] = [done |-> TRUE, ids |-> c.points]]
                    ELSE lastRerun

\* a task cancelled before its first step never runs its body: no except
\* or finally clause of the worker runs
TaskCancelledBeforeStart(j) ==
    /\ pc[j] = "not_started"
    /\ cancelReq[j]
    /\ WorkerEnds(j, "cancelled", FALSE)
    /\ UNCHANGED << embedVars, libVars, caCalls, impl, db, nextId, doc, after, client, loc, coll, ca, ret >>
    /\ UNCHANGED histVars

\* -------------------------------------- worker of routes/ingest.py
\* `finally: await emb.close(); _pop_task(job_id)`
RoutesFinally(j, kind) ==
    \E suspend \in CloseMaySuspend(j) :
        IF suspend
        THEN WorkerSuspendsInClose(j, kind)
        ELSE WorkerEnds(j, kind, TRUE) /\ after' = after

\* lines 105-110 raise: the store call fails before the try block
RoutesStartStoreFails(j) ==
    /\ impl = "routes"
    /\ pc[j] = "not_started"
    /\ ~cancelReq[j]
    /\ \E probeOk \in BOOLEAN :
          db[j].truncate \/ ~(coll[ProfileOf(j)].exists /\ probeOk)
    /\ WorkerEnds(j, "exception", FALSE)
    /\ raised' = raised \cup {j}
    /\ UNCHANGED << embedVars, libVars, caCalls, impl, db, nextId, doc, after, client, loc, coll, ca, ret >>
    /\ UNCHANGED << superseded, upserted, firstRun, rerun, lastRerun, caSnap >>

\* lines 105-138: up to the first `await asyncio.sleep(0)`
RoutesStart(j) ==
    /\ impl = "routes"
    /\ pc[j] = "not_started"
    /\ ~cancelReq[j]
    /\ \E probeOk \in BOOLEAN :
          coll' = [coll EXCEPT ![ProfileOf(j)] =
                       PrepareCollection(@, db[j].truncate, probeOk)]
    /\ db' = UpdateChunksDone(
                UpdateFilesDone(SetPhase(MarkRunning(db, j), j, PREFLIGHT), j, 0),
                j, 0)
    /\ pc' = [pc EXCEPT ![j] = "yield"]
    /\ doc' = [doc EXCEPT ![j] = 1]
    /\ UNCHANGED << embedVars, libVars, caCalls, impl, nextId, tasks, after, client, cancelReq, outcome, loc, ca, ret >>
    /\ UNCHANGED histVars

CurrentDoc(j) == ProfileDocs(ProfileOf(j))[doc[j]]

IsLastDoc(j) == doc[j] = Len(ProfileDocs(ProfileOf(j)))

\* the document contributes nothing: its file is missing (line 140) or it
\* has no chunks (line 166)
DocSkipped(d) == d.state = "missing" \/ (d.state = "ok" /\ d.chunks = 0)

\* what the loop turn of a skipped document leaves in the job row and locals
SkipRow(j) ==
    IF CurrentDoc(j).state = "missing"
    THEN db
    ELSE UpdateFilesDone(SetPhase(db, j, EXTRACT), j, loc[j].files_done + 1)

SkipLoc(j) ==
    IF CurrentDoc(j).state = "missing"
    THEN loc
    ELSE [loc EXCEPT ![j].files_done = @ + 1]

\* CancelledError out of `await asyncio.sleep(0)`: no except clause around it
RoutesYieldCancelled(j) ==
    /\ impl = "routes"
    /\ pc[j] = "yield"
    /\ cancelReq[j]
    /\ RoutesFinally(j, "cancelled")
    /\ UNCHANGED << embedVars, libVars, caCalls, impl, db, nextId, doc, client, loc, coll, ca, ret >>
    /\ UNCHANGED histVars

RoutesSkipDoc(j) ==
    /\ impl = "routes"
    /\ pc[j] = "yield"
    /\ ~cancelReq[j]
    /\ DocSkipped(CurrentDoc(j))
    /\ ~IsLastDoc(j)
    /\ db' = SkipRow(j)
    /\ loc' = SkipLoc(j)
    /\ doc' = [doc EXCEPT ![j] = @ + 1]
    /\ UNCHANGED << embedVars, libVars, caCalls, impl, nextId, tasks, pc, after, client, cancelReq, outcome, coll, ca, ret >>
    /\ UNCHANGED histVars

RoutesSkipLastDoc(j) ==
    /\ impl = "routes"
    /\ pc[j] = "yield"
    /\ ~cancelReq[j]
    /\ DocSkipped(CurrentDoc(j))
    /\ IsLastDoc(j)
    /\ db' = FinishJob(SkipRow(j), j, COMPLETED, "")
    /\ loc' = SkipLoc(j)
    /\ RoutesFinally(j, "returned")
    /\ RecordCompleted(j, ProfileOf(j), coll[ProfileOf(j)])
    /\ UNCHANGED << embedVars, libVars, caCalls, impl, nextId, doc, client, coll, ca, ret >>
    /\ UNCHANGED << superseded, raised, upserted, rerun, caSnap >>

\* load_pdf raises inside the try block, which has no except for it
RoutesLoaderRaises(j) ==
    /\ impl = "routes"
    /\ pc[j] = "yield"
    /\ ~cancelReq[j]
    /\ CurrentDoc(j).state = "badpage"
    /\ db' = SetPhase(db, j, EXTRACT)
    /\ RoutesFinally(j, "exception")
    /\ raised' = raised \cup {j}
    /\ UNCHANGED << embedVars, libVars, caCalls, impl, nextId, doc, client, loc, coll, ca, ret >>
    /\ UNCHANGED << superseded, upserted, firstRun, rerun, lastRerun, caSnap >>

\* lines 144-180: extract, then suspend in `await emb.embed(...)`
RoutesBeginEmbed(j) ==
    /\ impl = "routes"
    /\ pc[j] = "yield"
    /\ ~cancelReq[j]
    /\ CurrentDoc(j).state = "ok"
    /\ CurrentDoc(j).chunks > 0
    /\ db' = SetPhase(SetPhase(db, j, EXTRACT), j, EMBED)
    /\ pc' = [pc EXCEPT ![j] = "embed"]
    /\ client' = [client EXCEPT ![j] = TRUE]
    /\ UNCHANGED << embedVars, libVars, caCalls, impl, nextId, tasks, doc, after, cancelReq, outcome, loc, coll, ca, ret >>
    /\ UNCHANGED histVars

\* lines 181-184
RoutesEmbedCancelled(j) ==
    /\ impl = "routes"
    /\ pc[j] = "embed"
    /\ cancelReq[j]
    /\ db' = FinishJob(db, j, CANCELED, "cancelled by user")
    /\ RoutesFinally(j, "cancelled")
    /\ UNCHANGED << embedVars, libVars, caCalls, impl, nextId, doc, client, loc, coll, ca, ret >>
    /\ UNCHANGED histVars

\* lines 185-188
RoutesEmbedFailed(j) ==
    /\ impl = "routes"
    /\ pc[j] = "embed"
    /\ ~cancelReq[j]
    /\ db' = FinishJob(db, j, FAILED, "Embedding failed")
    /\ RoutesFinally(j, "returned")
    /\ raised' = raised \cup {j}
    /\ UNCHANGED << embedVars, libVars, caCalls, impl, nextId, doc, client, loc, coll, ca, ret >>
    /\ UNCHANGED << superseded, upserted, firstRun, rerun, lastRerun, caSnap >>

\* vdb.upsert raises (the store is unreachable): no except clause for it
RoutesUpsertFails(j) ==
    /\ impl = "routes"
    /\ pc[j] = "embed"
    /\ ~cancelReq[j]
    /\ db' = SetPhase(db, j, UPSERT)
    /\ RoutesFinally(j, "exception")
    /\ raised' = raised \cup {j}
    /\ UNCHANGED << embedVars, libVars, caCalls, impl, nextId, doc, client, loc, coll, ca, ret >>
    /\ UNCHANGED << superseded, upserted, firstRun, rerun, lastRerun, caSnap >>

\* the row after lines 192-213
UpsertRow(j) ==
    UpdateChunksDone(
        UpdateFilesDone(SetPhase(db, j, UPSERT), j, loc[j].files_done + 1),
        j, loc[j].chunks_done + CurrentDoc(j).chunks)

UpsertLoc(j) ==
    [loc EXCEPT ![j] = [files_done |-> @.files_done + 1,
                        chunks_done |-> @.chunks_done + CurrentDoc(j).chunks]]

\* embed returned; lines 192-215, then the next loop turn's sleep(0)
RoutesUpsertNext(j) ==
    /\ impl = "routes"
    /\ pc[j] = "embed"
    /\ ~cancelReq[j]
    /\ ~IsLastDoc(j)
    /\ \E probeOk \in BOOLEAN :
          coll' = [coll EXCEPT ![ProfileOf(j)] =
                       VdbUpsert(@, RoutesPointIds(j, CurrentDoc(j)), probeOk)]
    /\ upserted' = [upserted EXCEPT ![j] = @ \cup RoutesPointIds(j, CurrentDoc(j))]
    /\ db' = UpsertRow(j)
    /\ loc' = UpsertLoc(j)
    /\ pc' = [pc EXCEPT ![j] = "yield"]
    /\ doc' = [doc EXCEPT ![j] = @ + 1]
    /\ UNCHANGED << embedVars, libVars, caCalls, impl, nextId, tasks, after, client, cancelReq, outcome, ca, ret >>
    /\ UNCHANGED << superseded, raised, firstRun, rerun, lastRerun, caSnap >>

\* embed returned for the last document; lines 192-221
RoutesUpsertLast(j) ==
    /\ impl = "routes"
    /\ pc[j] = "embed"
    /\ ~cancelReq[j]
    /\ IsLastDoc(j)
    /\ \E probeOk \in BOOLEAN :
          coll' = [coll EXCEPT ![ProfileOf(j)] =
                       VdbUpsert(@, RoutesPointIds(j, CurrentDoc(j)), probeOk)]
    /\ upserted' = [upserted EXCEPT ![j] = @ \cup RoutesPointIds(j, CurrentDoc(j))]
    /\ db' = FinishJob(UpsertRow(j), j, COMPLETED, "")
    /\ loc' = UpsertLoc(j)
    /\ RoutesFinally(j, "returned")
    /\ RecordCompleted(j, ProfileOf(j), coll'[ProfileOf(j)])
    /\ UNCHANGED << embedVars, libVars, caCalls, impl, nextId, doc, client, ca, ret >>
    /\ UNCHANGED << superseded, raised, rerun, caSnap >>

\* CancelledError out of `await emb.close()`: _pop_task is not reached
RoutesCloseCancelled(j) ==
    /\ impl = "routes"
    /\ pc[j] = "close"
    /\ cancelReq[j]
    /\ WorkerEnds(j, "cancelled", FALSE)
    /\ UNCHANGED << embedVars, libVars, caCalls, impl, db, nextId, doc, after, client, loc, coll, ca, ret >>
    /\ UNCHANGED histVars

RoutesCloseReturns(j) ==
    /\ impl = "routes"
    /\ pc[j] = "close"
    /\ ~cancelReq[j]
    /\ WorkerEnds(j, after[j], TRUE)
    /\ UNCHANGED << embedVars, libVars, caCalls, impl, db, nextId, doc, after, client, loc, coll, ca, ret >>
    /\ UNCHANGED histVars


\* ------------------------------------------ worker of job_server.py
\* `except Exception` (lines 210-212), then `finally: _pop_task(job_id)`
ServerFails(j, d, error) ==
    /\ db' = FinishJob(d, j, FAILED, error)
    /\ raised' = raised \cup {j}
    /\ WorkerEnds(j, "returned", TRUE)

\* CancelledError handled as `except Exception` handles an error
ServerCancelledAsFailed(j) ==
    /\ db' = FinishJob(db, j, FAILED, "Cancelled by user")
    /\ WorkerEnds(j, "cancelled", TRUE)

\* `except asyncio.CancelledError` (lines 206-209), then the finally
ServerCancelled(j) ==
    /\ db' = FinishJob(db, j, CANCELED, "Cancelled by user")
    /\ WorkerEnds(j, "cancelled", TRUE)

\* truncate() or ensure_collection() raises (lines 144-148)
ServerStartStoreFails(j) ==
    /\ impl = "server"
    /\ pc[j] = "not_started"
    /\ ~cancelReq[j]
    /\ \E probeOk \in BOOLEAN :
          db[j].truncate \/ ~(coll[ProfileOf(j)].exists /\ probeOk)
    /\ ServerFails(j, SetPhase(db, j, EXTRACT), "store")
    /\ UNCHANGED << embedVars, libVars, caCalls, impl, nextId, doc, after, client, loc, coll, ca, ret >>
    /\ UNCHANGED << superseded, upserted, firstRun, rerun, lastRerun, caSnap >>

\* collect_chunks raises (lines 151-155)
ServerStartLoaderRaises(j) ==
    /\ impl = "server"
    /\ pc[j] = "not_started"
    /\ ~cancelReq[j]
    /\ CollectRaises(ProfileOf(j))
    /\ \E probeOk \in BOOLEAN :
          coll' = [coll EXCEPT ![ProfileOf(j)] =
                       PrepareCollection(@, db[j].truncate, probeOk)]
    /\ ServerFails(j, SetPhase(db, j, EXTRACT), "loader")
    /\ UNCHANGED << embedVars, libVars, caCalls, impl, nextId, doc, after, client, loc, ca, ret >>
    /\ UNCHANGED << superseded, upserted, firstRun, rerun, lastRerun, caSnap >>

\* no chunks recorded as a failure
ServerNoChunksFailed(j) ==
    db' = FinishJob(SetPhase(db, j, EXTRACT), j, FAILED, "No chunks loaded")

\* line 158: finish_job(COMPLETED, error="No chunks loaded")
ServerNoChunks(j) ==
    db' = FinishJob(SetPhase(db, j, EXTRACT), j, COMPLETED, "No chunks loaded")

\* lines 157-160: no chunks, the job completes at once
ServerStartNoChunks(j) ==
    /\ impl = "server"
    /\ pc[j] = "not_started"
    /\ ~cancelReq[j]
    /\ ~CollectRaises(ProfileOf(j))
    /\ CollectChunks(ProfileOf(j)) = << >>
    /\ \E probeOk \in BOOLEAN :
          coll' = [coll EXCEPT ![ProfileOf(j)] =
                       PrepareCollection(@, db[j].truncate, probeOk)]
    /\ ServerNoChunks(j)
    /\ WorkerEnds(j, "returned", TRUE)
    /\ RecordCompleted(j, ProfileOf(j), coll'[ProfileOf(j)])
    /\ UNCHANGED << embedVars, libVars, caCalls, impl, nextId, doc, after, client, loc, ca, ret >>
    /\ UNCHANGED << superseded, raised, upserted, rerun, caSnap >>

\* stats has no "files_done" key: stats.get("files_done", 0) is 0 (line 162)
StatsFilesDone == 0

\* lines 139-170: up to `await embedder.embed(texts)`
ServerBeginEmbed(j) ==
    /\ impl = "server"
    /\ pc[j] = "not_started"
    /\ ~cancelReq[j]
    /\ ~CollectRaises(ProfileOf(j))
    /\ CollectChunks(ProfileOf(j)) # << >>
    /\ \E probeOk \in BOOLEAN :
          coll' = [coll EXCEPT ![ProfileOf(j)] =
                       PrepareCollection(@, db[j].truncate, probeOk)]
    /\ db' = SetPhase(UpdateFilesDone(SetPhase(db, j, EXTRACT), j, StatsFilesDone),
                      j, EMBED)
    /\ pc' = [pc EXCEPT ![j] = "embed"]
    /\ client' = [client EXCEPT ![j] = TRUE]
    /\ UNCHANGED << embedVars, libVars, caCalls, impl, nextId, tasks, doc, after, cancelReq, outcome, loc, ca, ret >>
    /\ UNCHANGED histVars

\* lines 178-204 with a store that answers
ServerUpsertOk(j) ==
    /\ \E probeOk \in BOOLEAN :
          coll' = [coll EXCEPT ![ProfileOf(j)] =
                       VdbUpsert(@, ServerPointIds(ProfileOf(j)), probeOk)]
    /\ upserted' = [upserted EXCEPT ![j] = @ \cup ServerPointIds(ProfileOf(j))]
    /\ db' = FinishJob(
                UpdateChunksDone(SetPhase(db, j, UPSERT), j,
                                 Len(CollectChunks(ProfileOf(j)))),
                j, COMPLETED, "")
    /\ WorkerEnds(j, "returned", TRUE)
    /\ RecordCompleted(j, ProfileOf(j), coll'[ProfileOf(j)])
    /\ UNCHANGED << superseded, raised, rerun, caSnap >>

\* vdb.upsert raises: caught by `except Exception`
ServerUpsertFails(j) ==
    /\ ServerFails(j, SetPhase(db, j, UPSERT), "store")
    /\ UNCHANGED << coll, superseded, upserted, firstRun, rerun, lastRerun, caSnap >>

\* CancelledError out of embed: the inner finally awaits close(), then the
\* outer except marks the job CANCELED
ServerEmbedCancelled(j) ==
    /\ impl = "server"
    /\ pc[j] = "embed"
    /\ cancelReq[j]
    /\ \E suspend \in CloseMaySuspend(j) :
          IF suspend
          THEN WorkerSuspendsInClose(j, "cancelled") /\ db' = db
          ELSE ServerCancelled(j) /\ after' = after
    /\ UNCHANGED << embedVars, libVars, caCalls, impl, nextId, doc, client, loc, coll, ca, ret >>
    /\ UNCHANGED histVars

\* lines 171-176: embed raised, the job is FAILED, then close() and return
ServerEmbedFailed(j) ==
    /\ impl = "server"
    /\ pc[j] = "embed"
    /\ ~cancelReq[j]
    /\ db' = FinishJob(db, j, FAILED, "embedding")
    /\ raised' = raised \cup {j}
    /\ \E suspend \in CloseMaySuspend(j) :
          IF suspend
          THEN WorkerSuspendsInClose(j, "returned")
          ELSE WorkerEnds(j, "returned", TRUE) /\ after' = after
    /\ UNCHANGED << embedVars, libVars, caCalls, impl, nextId, doc, client, loc, coll, ca, ret >>
    /\ UNCHANGED << superseded, upserted, firstRun, rerun, lastRerun, caSnap >>

\* embed returned and close() suspends before the upsert
ServerEmbedOkCloseSuspends(j) ==
    /\ impl = "server"
    /\ pc[j] = "embed"
    /\ ~cancelReq[j]
    /\ TRUE \in CloseMaySuspend(j)
    /\ WorkerSuspendsInClose(j, "upsert")
    /\ UNCHANGED << embedVars, libVars, caCalls, impl, db, nextId, doc, client, loc, coll, ca, ret >>
    /\ UNCHANGED histVars

\* embed returned, close() did not suspend, the upsert follows at once
ServerEmbedOkUpsertOk(j) ==
    /\ impl = "server"
    /\ pc[j] = "embed"
    /\ ~cancelReq[j]
    /\ ServerUpsertOk(j)
    /\ UNCHANGED << embedVars, libVars, caCalls, impl, nextId, doc, after, client, loc, ca, ret >>

ServerEmbedOkUpsertFails(j) ==
    /\ impl = "server"
    /\ pc[j] = "embed"
    /\ ~cancelReq[j]
    /\ ServerUpsertFails(j)
    /\ UNCHANGED << embedVars, libVars, caCalls, impl, nextId, doc, after, client, loc, ca, ret >>

\* CancelledError out of `await embedder.close()`
ServerCloseCancelled(j) ==
    /\ impl = "server"
    /\ pc[j] = "close"
    /\ cancelReq[j]
    /\ ServerCancelled(j)
    /\ UNCHANGED << embedVars, libVars, caCalls, impl, nextId, doc, after, client, loc, coll, ca, ret >>
    /\ UNCHANGED histVars

\* close() returns while CancelledError is propagating
ServerCloseThenCancelled(j) ==
    /\ impl = "server"
    /\ pc[j] = "close"
    /\ ~cancelReq[j]
    /\ after[j] = "cancelled"
    /\ ServerCancelled(j)
    /\ UNCHANGED << embedVars, libVars, caCalls, impl, nextId, doc, after, client, loc, coll, ca, ret >>
    /\ UNCHANGED histVars

\* close() returns after the `return` of line 174
ServerCloseThenReturn(j) ==
    /\ impl = "server"
    /\ pc[j] = "close"
    /\ ~cancelReq[j]
    /\ after[j] = "returned"
    /\ WorkerEnds(j, "returned", TRUE)
    /\ UNCHANGED << embedVars, libVars, caCalls, impl, db, nextId, doc, after, client, loc, coll, ca, ret >>
    /\ UNCHANGED histVars

ServerCloseThenUpsertOk(j) ==
    /\ impl = "server"
    /\ pc[j] = "close"
    /\ ~cancelReq[j]
    /\ after[j] = "upsert"
    /\ ServerUpsertOk(j)
    /\ UNCHANGED << embedVars, libVars, caCalls, impl, nextId, doc, after, client, loc, ca, ret >>

ServerCloseThenUpsertFails(j) ==
    /\ impl = "server"
    /\ pc[j] = "close"
    /\ ~cancelReq[j]
    /\ after[j] = "upsert"
    /\ ServerUpsertFails(j)
    /\ UNCHANGED << embedVars, libVars, caCalls, impl, nextId, doc, after, client, loc, ca, ret >>

\* ------------------------------------------------------------- cancel_all
RECURSIVE SortedSeq(_)
\* the keys of _RUNNING_TASKS in insertion order, which is job id order
SortedSeq(S) ==
    IF S = {} THEN << >>
    ELSE LET m == CHOOSE x \in S : \A y \in S : x <= y
         IN  << m >> \o SortedSeq(S \ {m})

\* _list_running_ids
ListRunningIds == { j \in tasks : pc[j] # "done" }

RECURSIVE CollectLoop(_, _, _, _)
\* the second loop of cancel_all, run until `await wait_for(t)` suspends on
\* a task that is not done, or to its end: the state it leaves
CollectLoop(rest, d, tk, ids) ==
    IF rest = << >>
    THEN [db |-> d, tasks |-> tk, ids |-> ids, wait |-> 0, rest |-> << >>]
    ELSE LET j == Head(rest)
         IN  IF j \notin tk
             THEN CollectLoop(Tail(rest), d, tk, ids)
             ELSE IF pc[j] = "done"
                  THEN CollectLoop(Tail(rest),
                                   FinishJob(d, j, CANCELED, "cancelled by user"),
                                   tk \ {j}, Append(ids, j))
                  ELSE [db |-> d, tasks |-> tk, ids |-> ids, wait |-> j,
                        rest |-> Tail(rest)]

\* the handler's state after a run of the collect loop
CollectEffects(r) ==
    /\ db' = r.db
    /\ tasks' = r.tasks
    /\ IF r.wait = 0
       THEN /\ ca' = [pc |-> "returned", rest |-> << >>, wait |-> 0,
                      ids |-> r.ids, timedOut |-> FALSE]
            /\ ret' = [op |-> "cancel_all", jobs |-> r.ids]
       ELSE /\ ca' = [pc |-> "wait", rest |-> r.rest, wait |-> r.wait,
                      ids |-> r.ids, timedOut |-> FALSE]
            /\ ret' = ret

\* the first loop: task.cancel() on every tracked task that is not done,
\* then `await asyncio.sleep(...)`
CancelAllStart ==
    /\ ca.pc \in {"idle", "returned"}
    /\ caCalls < MaxCancelAll
    /\ caCalls' = caCalls + 1
    /\ ca' = [pc |-> "grace", rest |-> SortedSeq(ListRunningIds), wait |-> 0,
              ids |-> << >>, timedOut |-> FALSE]
    /\ cancelReq' = [j \in JobIds |-> cancelReq[j] \/ j \in ListRunningIds]
    /\ caSnap' = ListRunningIds
    /\ UNCHANGED << embedVars, libVars, impl, db, nextId, tasks, pc, doc, after, client,
                    outcome, loc, coll, ret >>
    /\ UNCHANGED << superseded, raised, upserted, firstRun, rerun, lastRerun >>

\* the sleep ends. The cancelled tasks were made ready by cancel(), before
\* the sleep's timer, so each has run its next step by now.
CancelAllCollect ==
    /\ ca.pc = "grace"
    /\ \A j \in JobIds : ~cancelReq[j]
    /\ CollectEffects(CollectLoop(ca.rest, db, tasks, << >>))
    /\ UNCHANGED << embedVars, libVars, caCalls, impl, nextId, pc, doc, after, client, cancelReq, outcome,
                    loc, coll >>
    /\ UNCHANGED histVars

\* wait_for's timeout expires: it cancels the task again and keeps waiting
\* for it to end
CancelAllTimeout ==
    /\ ca.pc = "wait"
    /\ ~ca.timedOut
    /\ pc[ca.wait] # "done"
    /\ ca' = [ca EXCEPT !.timedOut = TRUE]
    /\ cancelReq' = [cancelReq EXCEPT ![ca.wait] = TRUE]
    /\ UNCHANGED << embedVars, libVars, caCalls, impl, db, nextId, tasks, pc, doc, after, client, outcome,
                    loc, coll, ret >>
    /\ UNCHANGED histVars

\* the awaited task ended: the finally clause (lines 318-321), then the
\* rest of the loop
CancelAllResume ==
    /\ ca.pc = "wait"
    /\ pc[ca.wait] = "done"
    /\ CollectEffects(
          CollectLoop(ca.rest,
                      FinishJob(db, ca.wait, CANCELED, "cancelled by user"),
                      tasks \ {ca.wait}, Append(ca.ids, ca.wait)))
    /\ UNCHANGED << embedVars, libVars, caCalls, impl, nextId, pc, doc, after, client, cancelReq, outcome,
                    loc, coll >>
    /\ UNCHANGED histVars

\* ------------------------------------------------ embeddings.py: embed()
jobState == << impl, db, nextId, tasks, pc, doc, after, client, cancelReq,
               outcome, loc, coll, ca, caCalls, ret, superseded, raised,
               upserted, firstRun, rerun, lastRerun, caSnap >>

\* _backend_order without the comparison of the fallback with the primary
BackendOrderAnyFallback(primary, fallback) ==
    IF fallback # "none"
    THEN << primary, fallback >>
    ELSE << primary >>

\* _backend_order
BackendOrder(primary, fallback) ==
    IF fallback # "none" /\ fallback # primary
    THEN << primary, fallback >>
    ELSE << primary >>

EmbedOrder == BackendOrder(eCfg.primary, eCfg.fallback)

\* the calls embed() can be given: with ids and a cache or without; ids is
\* the list 1..nIds, so the id of text i is i, and the cache holds a vector,
\* of the configured length or not, for the ids in `cached`
EmbedInit ==
    /\ \E n \in 0..MaxTexts, nIds \in 0..MaxTexts, primary \in Backends,
          fallback \in Backends \cup {"none"}, conc \in Concurrencies,
          useCache \in BOOLEAN, cached \in SUBSET TextIds,
          cachedDimOk \in BOOLEAN :
          /\ cached \subseteq 1..nIds
          /\ ~useCache => (cached = {} /\ nIds = 0)
          /\ cached = {} => cachedDimOk
          /\ eCfg = [n |-> n, nIds |-> nIds, primary |-> primary,
                     fallback |-> fallback, conc |-> conc, useCache |-> useCache]
          /\ eCache = [i \in TextIds |->
                          IF i \in cached
                          THEN [src |-> "cache", i |-> i, dimOk |-> cachedDimOk]
                          ELSE NoVec]
    /\ ePc = "idle"
    /\ eRound = 0
    /\ ePending = << >>
    /\ eResults = [i \in TextIds |-> NoVec]
    /\ eTask = [r \in Rounds |-> [i \in TextIds |-> NoTask]]
    /\ eCalls = [r \in Rounds |-> [i \in TextIds |-> 0]]

\* _embed_ollama / _embed_cloudflare up to `await asyncio.gather(...)`: one
\* run_one task per pending text, each about to enter `async with sem`
Spawn(tk, r, pending) ==
    [tk EXCEPT ![r] = [i \in TextIds |->
        IF i <= Len(pending)
        THEN [pc |-> "wait_sem", attempt |-> 0, vec |-> NoVec, err |-> "none"]
        ELSE NoTask]]

\* the cache pass without the test of a hit: every index stays pending
PendingIndicesAll(n, hits) == [i \in 1..n |-> i]

\* the cache pass of lines 242-256: the indices left without a vector
PendingIndices(n, hits) ==
    SelectSeq([i \in 1..n |-> i], LAMBDA i : i \notin hits)

\* line 241: the cache is looked up when ids and cache are given and ids is
\* as long as texts
CacheLookup == eCfg.useCache /\ eCfg.nIds = eCfg.n

\* embed() from its entry to the first gather: lines 231-282
EmbedCall ==
    /\ ePc = "idle"
    /\ LET hits == IF CacheLookup
                   THEN { i \in 1..eCfg.n : eCache[i] # NoVec }
                   ELSE {}
           pending == PendingIndices(eCfg.n, hits)
       IN  /\ eResults' = [i \in TextIds |-> IF i \in hits THEN eCache[i] ELSE NoVec]
           /\ ePending' = pending
           /\ IF pending = << >>
              THEN /\ ePc' = "returned"
                   /\ UNCHANGED << eRound, eTask >>
              ELSE /\ ePc' = "gather"
                   /\ eRound' = 1
                   /\ eTask' = Spawn(eTask, 1, pending)
    /\ UNCHANGED << eCfg, eCache, eCalls >>
    /\ UNCHANGED << jobState, libVars >>

\* the run_one tasks of round r that hold the round's semaphore
Holders(r) ==
    { i \in TextIds : eTask[r][i].pc \in {"pacing", "request", "backoff"} }

\* `async with sem`: the semaphore admits its waiters in arrival order
TaskAcquire(r, i) ==
    /\ eTask[r][i].pc = "wait_sem"
    /\ Cardinality(Holders(r)) < eCfg.conc
    /\ \A k \in 1..(i - 1) : eTask[r][k].pc # "wait_sem"
    /\ eTask' = [eTask EXCEPT ![r][i].pc = "pacing"]
    /\ UNCHANGED << eCfg, eCache, ePc, eRound, ePending, eResults, eCalls >>
    /\ UNCHANGED << jobState, libVars >>

\* the pacing sleep ends: _retry's first attempt posts the request
TaskRequest(r, i) ==
    /\ eTask[r][i].pc = "pacing"
    /\ eTask' = [eTask EXCEPT ![r][i].pc = "request"]
    /\ eCalls' = [eCalls EXCEPT ![r][i] = @ + 1]
    /\ UNCHANGED << eCfg, eCache, ePc, eRound, ePending, eResults >>
    /\ UNCHANGED << jobState, libVars >>

\* the backend answers the request for pending_texts[i], the text of index
\* pending_indices[i], with a vector of the configured length or not
TaskResponse(r, i) ==
    /\ eTask[r][i].pc = "request"
    /\ \E dimOk \in BOOLEAN :
          eTask' = [eTask EXCEPT ![r][i].pc = "ok",
                                 ![r][i].vec = [src |-> EmbedOrder[r],
                                                i |-> ePending[i],
                                                dimOk |-> dimOk]]
    /\ UNCHANGED << eCfg, eCache, ePc, eRound, ePending, eResults, eCalls >>
    /\ UNCHANGED << jobState, libVars >>

\* _retry: the attempt raised, whatever the exception, and attempts remain,
\* so it sleeps the backoff
TaskError(r, i) ==
    /\ eTask[r][i].pc = "request"
    /\ eTask[r][i].attempt < max_retries
    /\ \E kind \in ErrorKinds :
          eTask' = [eTask EXCEPT ![r][i].pc = "backoff", ![r][i].attempt = @ + 1,
                                 ![r][i].err = kind]
    /\ UNCHANGED << eCfg, eCache, ePc, eRound, ePending, eResults, eCalls >>
    /\ UNCHANGED << jobState, libVars >>

\* _retry: the last attempt raised; run_one raises EmbeddingError
TaskExhausted(r, i) ==
    /\ eTask[r][i].pc = "request"
    /\ eTask[r][i].attempt >= max_retries
    /\ eTask' = [eTask EXCEPT ![r][i].pc = "failed"]
    /\ UNCHANGED << eCfg, eCache, ePc, eRound, ePending, eResults, eCalls >>
    /\ UNCHANGED << jobState, libVars >>

\* the backoff sleep ends: the next attempt posts the request
TaskRetry(r, i) ==
    /\ eTask[r][i].pc = "backoff"
    /\ eTask' = [eTask EXCEPT ![r][i].pc = "request", ![r][i].err = "none"]
    /\ eCalls' = [eCalls EXCEPT ![r][i] = @ + 1]
    /\ UNCHANGED << eCfg, eCache, ePc, eRound, ePending, eResults >>
    /\ UNCHANGED << jobState, libVars >>

\* `except Exception: continue`, then the next turn of the backend loop, or,
\* when the order is exhausted, lines 310-316: the raise if a text is left
\* without a vector in `results`, the return otherwise
NextBackend(results) ==
    IF eRound < Len(EmbedOrder)
    THEN /\ ePc' = "gather"
         /\ eRound' = eRound + 1
         /\ eTask' = Spawn(eTask, eRound + 1, ePending)
    ELSE /\ ePc' = IF \E i \in 1..eCfg.n : results[i] = NoVec
                   THEN "raised"
                   ELSE "returned"
         /\ UNCHANGED << eRound, eTask >>

\* sem.release() in the failing task's `async with` wakes the next waiter
\* before the task's done callback reaches gather: no permit is left unused
PermitsHandedOver(r) ==
    \/ Cardinality(Holders(r)) >= eCfg.conc
    \/ \A i \in TextIds : eTask[r][i].pc # "wait_sem"

\* gather raises as soon as one run_one task has raised; the other tasks it
\* spawned are left running
EmbedGatherRaises ==
    /\ ePc = "gather"
    /\ \E i \in 1..Len(ePending) : eTask[eRound][i].pc = "failed"
    /\ PermitsHandedOver(eRound)
    /\ NextBackend(eResults)
    /\ UNCHANGED << eCfg, eCache, ePending, eResults, eCalls >>
    /\ UNCHANGED << jobState, libVars >>

\* _validate: only the length of vecs[0] is compared with cfg.dim
Validate(vecs) == vecs[1].dimOk

\* the placing loop with `results[j] = vecs[j]`: the position in the pending
\* list taken for the position in texts
PlaceByPosition(results, pending, vecs) ==
    [i \in TextIds |-> IF i <= Len(pending) THEN vecs[i] ELSE results[i]]

\* lines 289-290: `results[idx] = vecs[j]` for each j, idx of pending_indices
Place(results, pending, vecs) ==
    [i \in TextIds |->
        IF \E j \in 1..Len(pending) : pending[j] = i
        THEN vecs[CHOOSE j \in 1..Len(pending) : pending[j] = i]
        ELSE results[i]]

Min(a, b) == IF a <= b THEN a ELSE b

\* the number of turns of the placing loop whose _cache_set succeeds:
\* ids[idx] raises IndexError for the first idx that ids does not have
CacheSets(pending) ==
    IF eCfg.useCache
    THEN Cardinality({ j \in 1..Len(pending) : pending[j] <= eCfg.nIds })
    ELSE Len(pending)

\* gather returned: sanitize, validate, then the placing loop of lines
\* 290-293, which sets results[idx] and then the cache under ids[idx]; the
\* IndexError of ids[idx] ends the loop and is caught by `except Exception`
EmbedGatherReturns ==
    /\ ePc = "gather"
    /\ \A i \in 1..Len(ePending) : eTask[eRound][i].pc = "ok"
    /\ LET vecs == [i \in 1..Len(ePending) |-> eTask[eRound][i].vec]
           sets == CacheSets(ePending)
           placed == Min(sets + 1, Len(ePending))
       IN  IF Validate(vecs)
           THEN /\ eResults' = Place(eResults, SubSeq(ePending, 1, placed), vecs)
                /\ eCache' = IF eCfg.useCache
                             THEN Place(eCache, SubSeq(ePending, 1, sets), vecs)
                             ELSE eCache
                /\ IF sets = Len(ePending)
                   THEN /\ ePc' = "returned"
                        /\ UNCHANGED << eRound, eTask >>
                   ELSE NextBackend(eResults')
           ELSE /\ NextBackend(eResults)
                /\ UNCHANGED << eResults, eCache >>
    /\ UNCHANGED << eCfg, ePending, eCalls >>
    /\ UNCHANGED << jobState, libVars >>

\* the task awaiting embed() is cancelled: gather cancels the tasks it is
\* waiting for, and CancelledError leaves embed()
EmbedCancelled ==
    /\ ePc = "gather"
    /\ ePc' = "cancelled"
    /\ eTask' = [eTask EXCEPT ![eRound] = [i \in TextIds |->
                    IF @[i].pc \in {"wait_sem", "pacing", "request", "backoff"}
                    THEN [@[i] EXCEPT !.pc = "cancelled"]
                    ELSE @[i]]]
    /\ UNCHANGED << eCfg, eCache, eRound, ePending, eResults, eCalls >>
    /\ UNCHANGED << jobState, libVars >>

TaskStep(r, i) ==
    \/ TaskAcquire(r, i)
    \/ TaskRequest(r, i)
    \/ TaskResponse(r, i)
    \/ TaskError(r, i)
    \/ TaskExhausted(r, i)
    \/ TaskRetry(r, i)

EmbedStep ==
    \/ EmbedCall
    \/ EmbedGatherRaises
    \/ EmbedGatherReturns
    \/ EmbedCancelled

NextEmbed ==
    \/ EmbedStep
    \/ \E r \in Rounds, i \in TextIds : TaskStep(r, i)

\* ------------------------------------------------------------------- Next
\* ------------------------------------------- vdb.py: upsert() and search()
\* the numbers of points of an upsert: none, a few, and the counts around
\* each multiple of UPSERT_BATCH
PointCounts ==
    {0, 1, 2} \cup { k * UPSERT_BATCH + d : k \in 1..MaxBatches, d \in {-1, 0, 1} }

\* the largest of them
MaxPoints == MaxBatches * UPSERT_BATCH + 1

\* the collections a call can find: absent, or present with a point
StoresBefore ==
    { NoCollection, [exists |-> TRUE, points |-> {<< "id", 0 >>}] }

\* upsert(vectors, payloads, ids): n vectors, of which the one at badAt (if
\* not 0) has a length other than self.dim; lens tells which list, if any,
\* has a length other than n; ids is "given", or None with a `hash` in every
\* payload ("hash") or in none ("none")
UpsertCalls ==
    { c \in [op : {"upsert"}, n : PointCounts, badAt : 0..MaxPoints,
             lens : {"ok", "payloads", "ids"}, ids : {"given", "hash", "none"},
             qOk : {TRUE}, before : StoresBefore] :
        /\ c.badAt <= c.n
        /\ c.lens = "ids" => c.ids = "given" }

\* search(query_vec): the query vector has length self.dim or not
SearchCalls ==
    [op : {"search"}, n : {0}, badAt : {0}, lens : {"ok"}, ids : {"none"},
     qOk : BOOLEAN, before : StoresBefore]

VdbInit ==
    /\ vIn \in UpsertCalls \cup SearchCalls
    /\ vPc = "idle"
    /\ vIds = << >>
    /\ vStart = 0
    /\ vWritten = << >>
    /\ vStore = vIn.before
    /\ vLog = << >>

\* len(vectors[i]) == self.dim, for the vector at position i (from 1)
VectorDimOk(c, i) == i # c.badAt

\* a guard that compares only len(vectors[0]) with self.dim
UpsertRejectsFirstOnly(c) ==
    \/ c.lens # "ok"
    \/ c.n > 0 /\ ~VectorDimOk(c, 1)

\* lines 110-126: the ValueErrors raised before ensure_collection()
UpsertRejects(c) ==
    \/ c.lens # "ok"
    \/ c.n > 0 /\ ~VectorDimOk(c, 1)
    \/ \E i \in 1..c.n : ~VectorDimOk(c, i)

\* "Prepare IDs": the ids given, else the payload's hash, else a uuid4
PreparedIds(c) ==
    [i \in 1..c.n |->
        IF c.ids = "given" THEN << "id", i >>
        ELSE IF c.ids = "hash" THEN << "hash", i >>
        ELSE << "uuid4", i >>]

\* upsert() from its entry to ensure_collection()
VdbUpsertCall ==
    /\ vPc = "idle"
    /\ vIn.op = "upsert"
    /\ vPc' = IF vIn.lens # "ok" THEN "raised"
              ELSE IF vIn.n = 0 THEN "returned"
              ELSE IF UpsertRejects(vIn) THEN "raised"
              ELSE "ensure"
    /\ UNCHANGED << vIn, vIds, vStart, vWritten, vStore, vLog >>
    /\ UNCHANGED << jobState, embedVars, chunkVars, searchVars, pageVars >>

\* search() from its entry to ensure_collection(): lines 165-168
VdbSearchCall ==
    /\ vPc = "idle"
    /\ vIn.op = "search"
    /\ vPc' = IF vIn.qOk THEN "ensure" ELSE "raised"
    /\ UNCHANGED << vIn, vIds, vStart, vWritten, vStore, vLog >>
    /\ UNCHANGED << jobState, embedVars, chunkVars, searchVars, pageVars >>

\* ensure_collection(): the probe, and recreate_collection when it raised
VdbEnsure ==
    /\ vPc = "ensure"
    /\ \E probeOk \in BOOLEAN :
          /\ vStore' = EnsureCollection(vStore, probeOk)
          /\ vLog' = vLog \o
                IF vStore.exists /\ probeOk
                THEN << [kind |-> "get_collection", points |-> << >>] >>
                ELSE << [kind |-> "get_collection", points |-> << >>],
                        [kind |-> "recreate_collection", points |-> << >>] >>
    /\ IF vIn.op = "upsert"
       THEN vPc' = "batches" /\ vIds' = PreparedIds(vIn)
       ELSE vPc' = "query" /\ vIds' = vIds
    /\ UNCHANGED << vIn, vStart, vWritten >>
    /\ UNCHANGED << jobState, embedVars, chunkVars, searchVars, pageVars >>

\* an `end` one past the batch size
BatchEndPlusOne(start, n) == Min(start + UPSERT_BATCH + 1, n)

\* line 142: end = min(start + UPSERT_BATCH, len(vectors))
BatchEnd(start, n) == Min(start + UPSERT_BATCH, n)

\* the elements start..end-1 (from 0) of a list: ids[start:end]
Slice(seq, start, end) == [k \in 1..(end - start) |-> seq[start + k]]

\* one turn of the batch loop (lines 141-148), and the return after the
\* last one
VdbSendBatch ==
    /\ vPc = "batches"
    /\ vStart < vIn.n
    /\ LET end == BatchEnd(vStart, vIn.n)
           batch == Slice(vIds, vStart, end)
       IN  /\ vLog' = Append(vLog, [kind |-> "upsert", points |-> batch])
           /\ vStore' = [vStore EXCEPT !.points =
                            @ \cup { batch[k] : k \in 1..Len(batch) }]
           /\ vWritten' = vWritten \o Slice(vIds, vStart, end)
    /\ vStart' = vStart + UPSERT_BATCH
    /\ vPc' = IF vStart' < vIn.n THEN "batches" ELSE "returned"
    /\ UNCHANGED << vIn, vIds >>
    /\ UNCHANGED << jobState, embedVars, chunkVars, searchVars, pageVars >>

\* client.search (lines 177-183)
VdbQuery ==
    /\ vPc = "query"
    /\ vLog' = Append(vLog, [kind |-> "search", points |-> << >>])
    /\ vPc' = "returned"
    /\ UNCHANGED << vIn, vIds, vStart, vWritten, vStore >>
    /\ UNCHANGED << jobState, embedVars, chunkVars, searchVars, pageVars >>

\* the client raises at the next request: the store is unreachable
VdbRequestFails ==
    /\ vPc \in {"ensure", "batches", "query"}
    /\ vPc' = "raised"
    /\ UNCHANGED << vIn, vIds, vStart, vWritten, vStore, vLog >>
    /\ UNCHANGED << jobState, embedVars, chunkVars, searchVars, pageVars >>

NextVdb ==
    \/ VdbUpsertCall
    \/ VdbSearchCall
    \/ VdbEnsure
    \/ VdbSendBatch
    \/ VdbQuery
    \/ VdbRequestFails

\* ------------------------------------------------- chunker.py: chunk_text
\* A text is its tokens (text.split()), numbered 1..n, and what the string
\* is when it has none: "empty" or "blank" (whitespace only). A chunk is the
\* tokens it joins and what its string is: "words", "empty" or "blank".
Max(a, b) == IF a >= b THEN a ELSE b

\* " ".join(tokens[i:j]), with i and j counted from 0
JoinTokens(i, j) ==
    [toks |-> [k \in 1..(j - i) |-> i + k],
     raw |-> IF j > i THEN "words" ELSE "empty"]

RECURSIVE ChunkLoop(_, _, _, _, _)
\* the while loop of lines 29-34, from index i with the chunks so far
ChunkLoop(i, n, size, overlap, chunks) ==
    IF i < n
    THEN LET j == Min(i + size, n)
         IN  IF j = n
             THEN Append(chunks, JoinTokens(i, j))
             ELSE ChunkLoop(i + Max(1, size - overlap), n, size, overlap,
                            Append(chunks, JoinTokens(i, j)))
    ELSE chunks

\* chunk_text(text, size, overlap)
ChunkText(text, size, overlap) ==
    IF size <= 0
    THEN << [toks |-> [k \in 1..text.n |-> k], raw |-> text.raw] >>
    ELSE LET ov == IF overlap >= size THEN Max(0, size - 1) ELSE overlap
         IN  SelectSeq(ChunkLoop(0, text.n, size, ov, << >>),
                       LAMBDA c : c.raw = "words")

\* the calls: texts of 0..MaxTokens tokens, sizes and overlaps around zero
\* and up to MaxSize
ChunkInit ==
    /\ cIn \in { c \in [n : 0..MaxTokens, raw : {"empty", "blank", "words"},
                         size : -1..MaxSize, overlap : -1..(MaxSize + 1)] :
                    (c.raw = "words") <=> (c.n > 0) }
    /\ cPc = "idle"
    /\ cChunks = << >>

ChunkCall ==
    /\ cPc = "idle"
    /\ cChunks' = ChunkText([n |-> cIn.n, raw |-> cIn.raw], cIn.size, cIn.overlap)
    /\ cPc' = "returned"
    /\ UNCHANGED cIn
    /\ UNCHANGED << jobState, embedVars, vdbVars, searchVars, pageVars >>

NextChunk == ChunkCall

\* ------------------------------------------- routes/search.py: search()
\* what a request meets: the collection exists or not and holds count
\* points; the store answers the probes or not ("fail"); embed() returns a
\* vector of the profile's dimension, one of another length, or raises
\* EmbeddingError; the store answers the query or not
SearchInit ==
    /\ sIn \in [exists : BOOLEAN, count : {0, 1, 2}, top_k : {1, 2},
                 probe : {"ok", "fail"}, embed : {"ok", "wrong_dim", "fails"},
                 query : {"ok", "fail"}]
    /\ sIn.exists \/ sIn.count = 0
    /\ sPc = "idle"
    /\ sRet = NoSearchResponse

\* lines 101-112: collection_exists() swallows a failed probe, count()
\* raises when the store fails
SearchCall ==
    /\ sPc = "idle"
    /\ LET exists == sIn.exists /\ sIn.probe = "ok"
       IN  IF exists /\ sIn.count > 0
           THEN sPc' = "embed" /\ sRet' = sRet
           ELSE /\ sPc' = "returned"
                /\ sRet' = [status |-> "error", results |-> 0]
    /\ UNCHANGED sIn
    /\ UNCHANGED << jobState, embedVars, vdbVars, chunkVars, pageVars >>

\* lines 116-128: embed() returned, then vdb.search, whose ValueError and
\* transport errors no except clause catches
SearchEmbedReturns ==
    /\ sPc = "embed"
    /\ sIn.embed # "fails"
    /\ IF sIn.embed = "wrong_dim"
       THEN sPc' = "raised" /\ sRet' = [status |-> "ValueError", results |-> 0]
       ELSE IF sIn.query = "fail"
       THEN sPc' = "raised" /\ sRet' = [status |-> "store error", results |-> 0]
       ELSE /\ sPc' = "returned"
            /\ sRet' = [status |-> "ok", results |-> Min(sIn.top_k, sIn.count)]
    /\ UNCHANGED sIn
    /\ UNCHANGED << jobState, embedVars, vdbVars, chunkVars, pageVars >>

\* lines 129-131: EmbeddingError becomes HTTPException(500)
SearchEmbedFails ==
    /\ sPc = "embed"
    /\ sIn.embed = "fails"
    /\ sPc' = "raised"
    /\ sRet' = [status |-> "HTTPException 500", results |-> 0]
    /\ UNCHANGED sIn
    /\ UNCHANGED << jobState, embedVars, vdbVars, chunkVars, pageVars >>

NextSearch ==
    \/ SearchCall
    \/ SearchEmbedReturns
    \/ SearchEmbedFails

\* --------------------------------------- page_ranges.py: compute_pages
\* A page spec is the list of the parts between its commas: a part "a-b" is
\* the pair a, b, a part "n" is the pair n, n written as a page. None and
\* the empty string are the list without parts.
PageParts ==
    [kind : {"range"}, a : 0..MaxPage, b : 0..MaxPage]
        \cup [kind : {"page"}, a : 0..MaxPage, b : {0}]

PageSpecs == UNION { [1..n -> PageParts] : n \in 0..MaxParts }

\* lines 43 and 48: the part raises ValueError
PartInvalid(part) ==
    IF part.kind = "range"
    THEN part.a <= 0 \/ part.b <= 0 \/ part.b < part.a
    ELSE part.a <= 0

\* lines 45 and 50: the pages the part adds to `out`
PartPages(part) ==
    IF part.kind = "range" THEN part.a..part.b ELSE {part.a}

ParseRaises(spec) == \E k \in 1..Len(spec) : PartInvalid(spec[k])

\* parse_page_ranges: sorted(out)
ParsePageRanges(spec) ==
    SortedSeq(UNION { PartPages(spec[k]) : k \in 1..Len(spec) })

\* compute_pages(include_spec, exclude_spec, total_pages), when no part raises
ComputePages(include_spec, exclude_spec, total_pages) ==
    LET include == ParsePageRanges(include_spec)
        exclude == ParsePageRanges(exclude_spec)
        base == IF include # << >>
                THEN include
                ELSE [i \in 1..total_pages |-> i]
    IN  SelectSeq(base, LAMBDA q : \A k \in 1..Len(exclude) : exclude[k] # q)

\* the calls: _iter_selected_pages and estimate_pages_total pass the specs
\* of the profile and the page count of the document
PagesInit ==
    /\ pIn \in [include : PageSpecs, exclude : PageSpecs, total : 0..MaxPage]
    /\ pPc = "idle"
    /\ pOut = << >>

PagesCall ==
    /\ pPc = "idle"
    /\ ~ParseRaises(pIn.include)
    /\ ~ParseRaises(pIn.exclude)
    /\ pOut' = ComputePages(pIn.include, pIn.exclude, pIn.total)
    /\ pPc' = "returned"
    /\ UNCHANGED pIn
    /\ UNCHANGED << jobState, embedVars, vdbVars, chunkVars, searchVars >>

\* a part of a spec is not a positive page or range: ValueError
PagesCallRaises ==
    /\ pPc = "idle"
    /\ ParseRaises(pIn.include) \/ ParseRaises(pIn.exclude)
    /\ pPc' = "raised"
    /\ UNCHANGED << pIn, pOut >>
    /\ UNCHANGED << jobState, embedVars, vdbVars, chunkVars, searchVars >>

NextPages ==
    \/ PagesCall
    \/ PagesCallRaises

WorkerStep(j) ==
    \/ TaskCancelledBeforeStart(j)
    \/ RoutesStartStoreFails(j)
    \/ RoutesStart(j)
    \/ RoutesYieldCancelled(j)
    \/ RoutesSkipDoc(j)
    \/ RoutesSkipLastDoc(j)
    \/ RoutesLoaderRaises(j)
    \/ RoutesBeginEmbed(j)
    \/ RoutesEmbedCancelled(j)
    \/ RoutesEmbedFailed(j)
    \/ RoutesUpsertFails(j)
    \/ RoutesUpsertNext(j)
    \/ RoutesUpsertLast(j)
    \/ RoutesCloseCancelled(j)
    \/ RoutesCloseReturns(j)
    \/ ServerStartStoreFails(j)
    \/ ServerStartLoaderRaises(j)
    \/ ServerStartNoChunks(j)
    \/ ServerBeginEmbed(j)
    \/ ServerEmbedCancelled(j)
    \/ ServerEmbedFailed(j)
    \/ ServerEmbedOkCloseSuspends(j)
    \/ ServerEmbedOkUpsertOk(j)
    \/ ServerEmbedOkUpsertFails(j)
    \/ ServerCloseCancelled(j)
    \/ ServerCloseThenCancelled(j)
    \/ ServerCloseThenReturn(j)
    \/ ServerCloseThenUpsertOk(j)
    \/ ServerCloseThenUpsertFails(j)

CancelAllStep ==
    \/ CancelAllStart
    \/ CancelAllCollect
    \/ CancelAllTimeout
    \/ CancelAllResume

Next ==
    \/ \E p \in RequestNames, t \in BOOLEAN : Enqueue(p, t)
    \/ \E p \in RequestNames : EnqueueRejected(p)
    \/ \E j \in JobIds : WorkerStep(j)
    \/ CancelAllStep

vars == << impl, db, nextId, tasks, pc, doc, after, client, cancelReq,
           outcome, loc, coll, ca, caCalls, ret, superseded, raised, upserted,
           firstRun, rerun, lastRerun, caSnap, eCfg, eCache, ePc, eRound,
           ePending, eResults, eTask, eCalls, vIn, vPc, vIds, vStart,
           vWritten, vStore, vLog, cIn, cPc, cChunks, sIn, sPc, sRet,
           pIn, pPc, pOut >>

Spec == Init /\ [][Next]_vars

\* one embed() call, with no job around it
InitEmbed ==
    /\ impl = "server"
    /\ JobsInit
    /\ EmbedInit
    /\ VdbIdle
    /\ ChunkIdle
    /\ SearchIdle
    /\ PagesIdle

SpecEmbed == InitEmbed /\ [][NextEmbed]_vars

\* one upsert() or search() call, with no job around it
InitVdb ==
    /\ impl = "server"
    /\ JobsInit
    /\ EmbedIdle
    /\ VdbInit
    /\ ChunkIdle
    /\ SearchIdle
    /\ PagesIdle

SpecVdb == InitVdb /\ [][NextVdb]_vars

\* one chunk_text() call
InitChunk ==
    /\ impl = "server"
    /\ JobsInit
    /\ EmbedIdle
    /\ VdbIdle
    /\ ChunkInit
    /\ SearchIdle
    /\ PagesIdle

SpecChunk == InitChunk /\ [][NextChunk]_vars

\* one search request
InitSearch ==
    /\ impl = "server"
    /\ JobsInit
    /\ EmbedIdle
    /\ VdbIdle
    /\ ChunkIdle
    /\ SearchInit
    /\ PagesIdle

SpecSearch == InitSearch /\ [][NextSearch]_vars

\* one compute_pages() call
InitPages ==
    /\ impl = "server"
    /\ JobsInit
    /\ EmbedIdle
    /\ VdbIdle
    /\ ChunkIdle
    /\ SearchIdle
    /\ PagesInit

SpecPages == InitPages /\ [][NextPages]_vars

\* the worker and handler steps a fair event loop keeps taking: every ready
\* task is run, every timer fires. Requests (enqueue, cancel_all) are not
\* owed by anyone.
FairSpec ==
    /\ Spec
    /\ \A j \in JobIds : WF_vars(WorkerStep(j))
    /\ WF_vars(CancelAllCollect \/ CancelAllTimeout \/ CancelAllResume)

\* ----------------------------------------------------------- properties
\* the worker of job j has begun and has not ended
Executing(j) == pc[j] \in {"yield", "embed", "close"}

\* C1: in every reachable state each profile has at most one job row whose
\* status is QUEUED or RUNNING
C1_OneActiveJobPerProfile ==
    \A p \in Profiles : Cardinality(RowsQueuedOrRunning(db, p)) <= 1

\* C2: at any time at most one worker task per profile is executing
C2_OneExecutingWorkerPerProfile ==
    \A p \in Profiles :
        Cardinality({ j \in JobIds : db[j].profile = p /\ Executing(j) }) <= 1

\* C3: once cancel_all has returned, every job whose task was tracked and
\* not done when it was called has status CANCELED
C3_CancelAllLeavesCanceled ==
    ca.pc = "returned" => \A j \in caSnap : db[j].status = CANCELED

\* C4: a job that an enqueue superseded is CANCELED once its worker has
\* stopped
C4_SupersededEndsCanceled ==
    \A j \in superseded : pc[j] = "done" => db[j].status = CANCELED

\* C5: a job that no enqueue superseded and whose task ended by
\* cancellation with status CANCELED has written no point to the vector store
C5_CanceledWroteNothing ==
    \A j \in JobIds \ superseded :
        (pc[j] = "done" /\ outcome[j] = "cancelled" /\ db[j].status = CANCELED)
            => upserted[j] = {}

\* C6: when a job without truncate, enqueued after its profile's first
\* completed run, completes over a collection that still holds the points of
\* the first run (exactly the points one job wrote), the collection holds
\* the same point ids and the same number of points as after the first run
C6_ReingestSameIds ==
    \A p \in Profiles :
        ( /\ lastRerun[p].done
          /\ \E j \in JobIds : upserted[j] # {} /\ firstRun[p].ids = upserted[j]
          /\ firstRun[p].ids \subseteq lastRerun[p].ids )
        =>  /\ lastRerun[p].ids = firstRun[p].ids
            /\ Cardinality(lastRerun[p].ids) = Cardinality(firstRun[p].ids)

\* C7: an enqueue step returns canceled_previous equal to the number of rows
\* of its profile that were QUEUED or RUNNING before it, leaves exactly those
\* rows CANCELED and changes the status of no other earlier row
C7_EnqueueCancelsExactlyActive ==
    [][ nextId' = nextId + 1 =>
            LET p == ret'.profile
                before == RowsQueuedOrRunning(db, p)
            IN  /\ ret'.op = "enqueue"
                /\ ret'.job_id = nextId
                /\ ret'.canceled_previous = Cardinality(before)
                /\ \A j \in before : db'[j].status = CANCELED
                /\ \A j \in JobIds \ (before \cup {nextId}) :
                       db'[j].status = db[j].status
                /\ db'[nextId].status = QUEUED
      ]_vars

\* C7, its case: the last response is an enqueue that canceled one earlier
\* job of its profile
C7_Witness ==
    /\ ret.op = "enqueue"
    /\ ret.canceled_previous = 1
    /\ \E j \in superseded :
          /\ db[j].profile = ret.profile
          /\ db[j].status = CANCELED
          /\ j # ret.job_id

\* C8: a job in whose worker an exception other than cancellation was
\* raised, and which no cancel_all targeted, is FAILED with phase FINISHED
\* once its task has ended
C8_ExceptionEndsFailed ==
    \A j \in raised :
        (pc[j] = "done" /\ j \notin caSnap)
            => (db[j].status = FAILED /\ db[j].phase = FINISHED)

\* C9: every enqueued job eventually has a terminal status
C9_EveryJobTerminates ==
    \A j \in JobIds :
        (db[j].status \in ActiveStatuses) ~> (db[j].status \in TerminalStatuses)

\* C10: once embed() has left a backend none of whose calls succeeded, every
\* pending text has been sent to that backend exactly max_retries + 1 times
C10_ExhaustedBeforeNextBackend ==
    \A r \in Rounds :
        ( /\ r <= Len(EmbedOrder)
          /\ eRound > r \/ (eRound = r /\ ePc = "raised")
          /\ \A i \in 1..Len(ePending) : eTask[r][i].pc # "ok" )
        => \A i \in 1..Len(ePending) : eCalls[r][i] = max_retries + 1

\* C11: every vector embed() returns has the configured length, whether a
\* backend sent it or the cache held it, at every position of the batch
C11_ReturnedVectorsHaveDim ==
    ePc = "returned" => \A i \in 1..eCfg.n : eResults[i].dimOk

\* C12: after a backend answered every request and the batch failed the
\* dimension check, embed() sends no request to the fallback backend
C12_DimErrorNoFallback ==
    ( /\ eRound = 2
      /\ Len(ePending) > 0
      /\ \A i \in 1..Len(ePending) : eTask[1][i].pc = "ok" )
        => \A i \in 1..Len(ePending) : eCalls[2][i] = 0

\* the attempt of round r on the batch failed: a run_one task raised after
\* its retries, or every task was answered and the dimension check failed
RoundFailed(r) ==
    \/ \E i \in 1..Len(ePending) : eTask[r][i].pc = "failed"
    \/ /\ Len(ePending) > 0
       /\ \A i \in 1..Len(ePending) : eTask[r][i].pc = "ok"
       /\ ~eTask[r][1].vec.dimOk

\* C13: round 1 asks the primary; the fallback is asked only when it is
\* configured, differs from the primary and round 1 has failed; embed()
\* returns with the vectors of the backend that passed, and raises only
\* after every backend of the order has failed
C13_PrimaryThenFallback ==
    /\ \A i \in TextIds :
          /\ eTask[1][i].vec.src \in {"none", eCfg.primary}
          /\ eTask[2][i].vec.src \in {"none", eCfg.fallback}
          /\ eCalls[2][i] > 0 =>
                /\ eCfg.fallback \notin {"none", eCfg.primary}
                /\ RoundFailed(1)
    /\ (ePc = "returned" /\ Len(ePending) > 0) =>
          /\ ~RoundFailed(eRound)
          /\ \A i \in 1..Len(ePending) :
                eResults[ePending[i]] = eTask[eRound][i].vec
    /\ ePc = "raised" =>
          /\ eRound = Len(EmbedOrder)
          /\ \A r \in 1..Len(EmbedOrder) : RoundFailed(r)

\* C13, its case: embed() returned the fallback's vectors after the primary
\* had failed
C13_Witness ==
    /\ ePc = "returned"
    /\ eRound = 2
    /\ RoundFailed(1)
    /\ \E i \in 1..Len(ePending) : eResults[ePending[i]].src = eCfg.fallback

\* C14: when embed() returns, the result has one vector for each of the
\* eCfg.n texts and no more, and the vector at position i is the one the
\* cache or a backend gave for text i
C14_ResultsInInputOrder ==
    ePc = "returned" =>
        /\ \A i \in 1..eCfg.n : eResults[i] # NoVec /\ eResults[i].i = i
        /\ \A i \in TextIds \ (1..eCfg.n) : eResults[i] = NoVec

\* C14, its case: a batch of two texts returned with the first vector read
\* from the cache and the second sent by a backend
C14_Witness ==
    /\ ePc = "returned"
    /\ eCfg.n = 2
    /\ ePending = << 2 >>
    /\ eResults[1].src = "cache"
    /\ eResults[2].src \in Backends

\* the per-text requests of the call that are posted and not yet answered
InFlight == { ri \in Rounds \X TextIds : eTask[ri[1]][ri[2]].pc = "request" }

\* C15: at every moment of an embed() call at most eCfg.conc of its
\* per-text requests are in flight, over both backends together
C15_InFlightWithinConcurrency ==
    Cardinality(InFlight) <= eCfg.conc

\* the error texts the two workers record when embed() raised
EmbedFailureTexts == {"Embedding failed", "embedding"}

\* the row of job j records a failure of embed()
EmbedFailureRecorded(d, j) ==
    d[j].status = FAILED /\ d[j].error \in EmbedFailureTexts

\* C16: the step in which a worker handles an error raised by embed() leaves
\* the job FAILED with phase FINISHED and the error text, writes no point
\* and ends the worker's loop; from then on the row stays as it is, the job
\* writes no point and takes no further document
C16_EmbedFailureEndsJob ==
    [][ \A j \in JobIds :
          /\ (pc[j] = "embed" /\ ~EmbedFailureRecorded(db, j)
                              /\ EmbedFailureRecorded(db', j)) =>
                /\ db'[j].phase = FINISHED
                /\ pc'[j] \in {"close", "done"}
                /\ coll' = coll
                /\ upserted'[j] = upserted[j]
          /\ EmbedFailureRecorded(db, j) =>
                /\ db'[j] = db[j]
                /\ upserted'[j] = upserted[j]
                /\ doc'[j] = doc[j]
      ]_vars

\* the profile lists at least one document of a type that has a loader
HasKnownDocument(p) ==
    \E i \in 1..Len(Documents(p)) : Documents(p)[i].type \in LoaderTypes

\* C17: a step that answers an enqueue with a rejection leaves the jobs
\* table, the task registry and every worker as they were, and a step that
\* creates a job is for a configured profile with a known document
C17_RejectedEnqueueChangesNothing ==
    [][ /\ (ret'.op = "rejected" /\ ret' # ret) =>
              /\ ret'.profile \notin Profiles \/ ~HasKnownDocument(ret'.profile)
                    \/ (impl = "routes" /\ ProfileDocs(ret'.profile) = << >>)
              /\ db' = db
              /\ tasks' = tasks
              /\ nextId' = nextId
              /\ pc' = pc
              /\ cancelReq' = cancelReq
        /\ (nextId' # nextId) =>
              /\ ret'.op = "enqueue"
              /\ ret'.profile \in Profiles
              /\ HasKnownDocument(ret'.profile)
              /\ db'[nextId].profile = ret'.profile
      ]_vars

\* C17, its case: an enqueue for a profile without known documents was
\* rejected while a job of another profile is active with its task registered
C17_Witness ==
    /\ ret.op = "rejected"
    /\ ret.code = 400
    /\ \E j \in tasks : db[j].status \in ActiveStatuses

\* C18: a step in which a collection loses a point is the first step of a
\* worker whose job was enqueued with truncate = true for that profile
C18_OnlyTruncateRemovesPoints ==
    [][ \A p \in Profiles :
          ~(coll[p].points \subseteq coll'[p].points) =>
              \E j \in JobIds :
                  /\ db[j].profile = p
                  /\ db[j].truncate
                  /\ pc[j] = "not_started"
                  /\ pc'[j] # "not_started"
      ]_vars

\* the call was given a vector of a length other than self.dim
WrongLength(c) ==
    \/ c.op = "upsert" /\ c.badAt \in 1..c.n
    \/ c.op = "search" /\ ~c.qOk

\* C19: an upsert with a wrong-length vector at any position, or a search
\* with a wrong-length query vector, ends raised with no request sent to
\* the store and the collection as it was before the call
C19_WrongLengthFailsBeforeRequest ==
    (vPc \notin {"off", "idle"} /\ WrongLength(vIn)) =>
        /\ vPc = "raised"
        /\ vLog = << >>
        /\ vStore = vIn.before
        /\ vWritten = << >>

\* C19, its case: an upsert of more than one batch whose last vector alone
\* has the wrong length has raised
C19_Witness ==
    /\ vPc = "raised"
    /\ vIn.op = "upsert"
    /\ vIn.lens = "ok"
    /\ vIn.n > UPSERT_BATCH
    /\ vIn.badAt = vIn.n

\* the upsert requests of the log, in order
UpsertRequests == SelectSeq(vLog, LAMBDA r : r.kind = "upsert")

RECURSIVE Flatten(_)
\* the points of a sequence of requests, in the order they were sent
Flatten(reqs) ==
    IF reqs = << >> THEN << >>
    ELSE Head(reqs).points \o Flatten(Tail(reqs))

\* C20: when upsert() has returned, its requests carried between 1 and
\* UPSERT_BATCH points each, all but the last UPSERT_BATCH, together the n
\* points once each in input order, and the ids returned are the n ids in
\* input order
C20_UpsertBatchesInOrder ==
    (vPc = "returned" /\ vIn.op = "upsert") =>
        /\ \A k \in 1..Len(UpsertRequests) :
              /\ Len(UpsertRequests[k].points) \in 1..UPSERT_BATCH
              /\ k < Len(UpsertRequests) =>
                    Len(UpsertRequests[k].points) = UPSERT_BATCH
        /\ Flatten(UpsertRequests) = PreparedIds(vIn)
        /\ vWritten = PreparedIds(vIn)
        /\ Len(vWritten) = vIn.n
        /\ \A i \in 1..vIn.n : vWritten[i][2] = i

\* C20, its case: an upsert of two full batches and one more point returned
C20_Witness ==
    /\ vPc = "returned"
    /\ vIn.op = "upsert"
    /\ vIn.n = 2 * UPSERT_BATCH + 1
    /\ Len(UpsertRequests) = 3
    /\ Len(vWritten) = vIn.n

\* the place of a phase in the order PREFLIGHT, EXTRACT, EMBED, UPSERT,
\* FINISHED
PhaseRank(phase) ==
    CASE phase = PREFLIGHT -> 1
      [] phase = EXTRACT   -> 2
      [] phase = EMBED     -> 3
      [] phase = UPSERT    -> 4
      [] phase = FINISHED  -> 5
      [] OTHER             -> 0

\* C25: no step takes the phase of an existing job to an earlier phase
C25_PhaseOnlyAdvances ==
    [][ \A j \in JobIds :
          db[j].status # "none" =>
              PhaseRank(db'[j].phase) >= PhaseRank(db[j].phase)
      ]_vars

\* C26: a job whose phase is EXTRACT, EMBED or UPSERT has status RUNNING
C26_WorkingPhaseIsRunning ==
    \A j \in JobIds :
        db[j].phase \in {EXTRACT, EMBED, UPSERT} => db[j].status = RUNNING

\* C27: a job whose status is COMPLETED, FAILED or CANCELED has phase
\* FINISHED
C27_TerminalIsFinished ==
    \A j \in JobIds :
        db[j].status \in TerminalStatuses => db[j].phase = FINISHED

\* C28: the step in which a cancellation reaches a worker awaiting embed()
\* writes no point and leaves the job neither FAILED nor COMPLETED; the
\* worker goes on only to close the embedder with the cancellation still
\* propagating (routes/ingest.py has written CANCELED by then), its task
\* ends cancelled with the job CANCELED, and the job stays CANCELED
C28_CancelDuringEmbedEndsCanceled ==
    [][ \A j \in JobIds :
          /\ (pc[j] = "embed" /\ cancelReq[j] /\ pc'[j] # "embed") =>
                /\ db'[j].status \notin {FAILED, COMPLETED}
                /\ upserted'[j] = upserted[j]
                /\ pc'[j] \in {"close", "done"}
                /\ pc'[j] = "close" => after'[j] = "cancelled"
                /\ (pc'[j] = "done" \/ impl = "routes") => db'[j].status = CANCELED
                /\ pc'[j] = "done" => outcome'[j] = "cancelled"
          /\ ( /\ pc[j] = "close" /\ after[j] = "cancelled"
               /\ impl = "server" \/ db[j].status = CANCELED
               /\ pc'[j] # "close" ) =>
                /\ pc'[j] = "done"
                /\ db'[j].status = CANCELED
                /\ outcome'[j] = "cancelled"
                /\ upserted'[j] = upserted[j]
          /\ (pc[j] = "done" /\ db[j].status = CANCELED) =>
                db'[j].status = CANCELED
      ]_vars

\* C28, its case: a job_server worker was cancelled in embed(), closed the
\* embedder and ended with its job CANCELED
C28_Witness ==
    /\ impl = "server"
    /\ \E j \in JobIds :
          /\ pc[j] = "done"
          /\ after[j] = "cancelled"
          /\ outcome[j] = "cancelled"
          /\ db[j].status = CANCELED
          /\ db[j].error = "Cancelled by user"

\* C30: after the primary exhausted its retries for some text, a text for
\* which the primary returned a vector of the configured length is not sent
\* to the fallback
C30_FallbackGetsOnlyPending ==
    [][ \A i \in 1..Len(ePending) :
          ( /\ \E k \in 1..Len(ePending) : eTask[1][k].pc = "failed"
            /\ eTask[1][i].pc = "ok"
            /\ eTask[1][i].vec.dimOk
            /\ eCalls[2][i] = 0 )
              => eCalls'[2][i] = 0
      ]_vars

\* the failures the retry wrapper is said to retry
Retryable == {"timeout", "http_429", "http_5xx"}

\* C29: a per-text call is posted again on the same backend only after an
\* attempt that failed with a timeout, a 429 or a 5xx response
C29_RetryOnlyRetryable ==
    [][ \A r \in Rounds, i \in TextIds :
          (eTask[r][i].pc = "backoff" /\ eTask'[r][i].pc = "request")
              => eTask[r][i].err \in Retryable
      ]_vars

\* C22: no job ends FAILED with the error a document loader raised
C22_BadDocumentSkipped ==
    \A j \in JobIds : ~(db[j].status = FAILED /\ db[j].error = "loader")

\* the tokens a chunk holds
ChunkTokens(c) == { c.toks[k] : k \in 1..Len(c.toks) }

\* C23: for size > 0 and overlap < size, every token of the text is in some
\* chunk, the chunks and the tokens within each are in text order, and two
\* consecutive chunks have exactly `overlap` tokens in common
C23_ChunksCoverWithOverlap ==
    (cPc = "returned" /\ cIn.size > 0 /\ cIn.overlap < cIn.size) =>
        /\ \A t \in 1..cIn.n : \E k \in 1..Len(cChunks) : t \in ChunkTokens(cChunks[k])
        /\ \A k \in 1..Len(cChunks) :
              \A a, b \in 1..Len(cChunks[k].toks) :
                  a < b => cChunks[k].toks[a] < cChunks[k].toks[b]
        /\ \A k \in 1..(Len(cChunks) - 1) :
              /\ cChunks[k].toks[1] < cChunks[k + 1].toks[1]
              /\ Cardinality(ChunkTokens(cChunks[k]) \cap ChunkTokens(cChunks[k + 1]))
                    = cIn.overlap

\* C24: every chunk chunk_text returns is a non-empty string holding a
\* word, and a text that is empty or whitespace only yields no chunk
C24_ChunksNonEmpty ==
    cPc = "returned" =>
        /\ \A k \in 1..Len(cChunks) : cChunks[k].raw = "words"
        /\ cIn.raw \in {"empty", "blank"} => cChunks = << >>

\* the request met a failing store or a failing embedding backend
SearchFault ==
    sIn.probe = "fail" \/ sIn.embed = "fails" \/ sIn.query = "fail"

\* C21: a search request never ends with an exception, and one that met an
\* absent or empty collection or a failing store or embedding backend
\* returns status "error" with no results
C21_SearchNeverRaises ==
    /\ sPc # "raised"
    /\ (sPc = "returned" /\ (SearchFault \/ ~sIn.exists \/ sIn.count = 0)) =>
          sRet = [status |-> "error", results |-> 0]

\* a request is posted for the text at position j of round r's pending_texts
Requested(r, j) == eCalls'[r][j] > eCalls[r][j]

\* C31: when ids and cache are given and aligned, every request to a backend
\* is for a text that the cache pass left pending, never for one whose
\* vector came from the cache; a batch of hits only posts no request
C31_CachedNeverRequested ==
    [][ CacheLookup =>
          \A r \in Rounds, j \in TextIds :
              Requested(r, j) =>
                  /\ j <= Len(ePending)
                  /\ eResults[ePending[j]].src # "cache" ]_vars

\* a call with one hit and one miss has returned: the miss was requested
C31_Witness ==
    /\ CacheLookup
    /\ ePc = "returned"
    /\ eCfg.n = 2
    /\ Len(ePending) = 1
    /\ \E i \in 1..2 : eResults[i].src = "cache" /\ ePending[1] # i
    /\ eCalls[1][1] > 0
    /\ eCalls[1][2] = 0 /\ eCalls[2][2] = 0

\* C32: when embed() has returned or raised, every text for which a backend
\* gave a vector of the configured length has a vector in the cache under
\* its id, whatever happened to the other texts
C32_CachePopulatedPerItem ==
    (ePc \in {"returned", "raised"} /\ CacheLookup) =>
        \A r \in Rounds, j \in 1..Len(ePending) :
            (eTask[r][j].pc = "ok" /\ eTask[r][j].vec.dimOk) =>
                eCache[ePending[j]] # NoVec

\* C37: a request is posted only by a call of the round embed() is waiting
\* for: none after embed() returned, raised or was cancelled, none by a
\* call of the primary after embed() moved on to the fallback
C37_NoRequestAfterRound ==
    [][ \A r \in Rounds, j \in TextIds :
          Requested(r, j) => (ePc = "gather" /\ r = eRound) ]_vars

\* C38: with ids and a cache given and len(ids) # len(texts), the cache is
\* not written, and embed() ends as the call without ids and cache does:
\* after the fallback only if the primary failed
C38_MisalignedIdsIgnoreCache ==
    [][ (eCfg.useCache /\ eCfg.nIds # eCfg.n) =>
          /\ eCache' = eCache
          /\ (ePc = "gather" /\ eRound' = 2 /\ eRound = 1) =>
                \/ \E j \in 1..Len(ePending) : eTask[1][j].pc = "failed"
                \/ ~Validate([j \in 1..Len(ePending) |-> eTask[1][j].vec]) ]_vars

\* the ids a sequence holds
Range(seq) == { seq[k] : k \in 1..Len(seq) }

\* C33: the list cancel_all returns holds exactly the jobs whose tasks were
\* tracked and not done when it was called, those whose workers popped
\* themselves within the grace sleep included
C33_CancelAllReturnsTracked ==
    (ca.pc = "returned" /\ ret.op = "cancel_all") => Range(ret.jobs) = caSnap

\* collect_chunks returns no chunk for profile p, and raises nothing
NoChunksProfile(p) == ~CollectRaises(p) /\ CollectChunks(p) = << >>

\* C34: in job_server.py a job for which collect_chunks was reached and
\* yielded no chunks never awaits embed(), writes no point, is never FAILED
\* unless the store call before collect_chunks failed, and once its worker
\* has returned it is COMPLETED with phase FINISHED
C34_NoChunksCompletes ==
    \A j \in JobIds :
        (impl = "server" /\ db[j].status # "none" /\ NoChunksProfile(db[j].profile)) =>
            /\ pc[j] \notin {"embed", "close"}
            /\ ~client[j]
            /\ upserted[j] = {}
            /\ db[j].status = FAILED => db[j].error = "store"
            /\ (pc[j] = "done" /\ outcome[j] = "returned" /\ db[j].error # "store") =>
                  /\ db[j].status = COMPLETED
                  /\ db[j].phase = FINISHED

\* a job_server.py job whose documents gave no chunk has completed
C34_Witness ==
    \E j \in JobIds :
        /\ impl = "server"
        /\ NoChunksProfile(db[j].profile)
        /\ KnownDocumentCount(db[j].profile) > 0
        /\ pc[j] = "done"
        /\ outcome[j] = "returned"
        /\ db[j].status = COMPLETED
        /\ db[j].phase = FINISHED
        /\ db[j].error = "No chunks loaded"

\* C35: once a job's status is COMPLETED, FAILED or CANCELED, no step
\* changes it
C35_TerminalIsAbsorbing ==
    [][ \A j \in JobIds :
          db[j].status \in TerminalStatuses => db'[j].status = db[j].status ]_vars

\* C36: once enqueue has superseded a job, no step of its worker writes a
\* point or removes one from the collection
C36_SupersededWritesNothing ==
    [][ \A j \in superseded :
          /\ upserted'[j] = upserted[j]
          /\ pc'[j] # pc[j] =>
                coll[db[j].profile].points \subseteq coll'[db[j].profile].points ]_vars

\* the documents whose loader the worker of a completed job of profile p ran
DocsProcessed(p) ==
    IF impl = "routes"
    THEN Len(SelectSeq(ProfileDocs(p), LAMBDA d : d.state # "missing"))
    ELSE KnownDocumentCount(p)

\* C40: a COMPLETED job's files_done is the number of documents its worker
\* processed, and is at most files_total
C40_FilesDoneCountsDocuments ==
    \A j \in JobIds :
        db[j].status = COMPLETED =>
            /\ db[j].files_done = DocsProcessed(db[j].profile)
            /\ db[j].files_done <= db[j].files_total

\* C39: every page compute_pages returns is a page of the document, between
\* 1 and total_pages
C39_PagesWithinDocument ==
    pPc = "returned" => \A k \in 1..Len(pOut) : pOut[k] \in 1..pIn.total

====
